---- MODULE Spec2Model ----
(***************************************************************************)
(* Model of matrix_lib: the owning Matrix<T> (row-major buffer_ plus       *)
(* cols_), the borrowing ConstMatrixView<T> (ptr_, row_, column_, state_)  *)
(* and the operations on them, from src/types/matrix.h.                    *)
(*                                                                         *)
(* Elements are complex numbers with integer parts, <<re, im>>.            *)
(* IndexType and Segment fields are signed integers (MakeSegment tests     *)
(* begin < 0 and the default Segment is {-1, -1}).                         *)
(* A failed assert aborts the program: the action records ok = FALSE and   *)
(* nothing runs afterwards.                                                *)
(***************************************************************************)
EXTENDS Integers, Sequences, FiniteSets, TLC

\* ------------------------------------------------------------------ bounds
\* largest row/column count of a constructed matrix in Spec
MaxDim == 2
\* largest magnitude of a real or imaginary part a product may produce
MaxVal == 2
\* largest row/column count of the matrices drawn in SpecMatrix and SpecEq
MaxTrDim == 4
\* largest number of Transpose()/Conjugate() calls in a run of SpecMatrix
MaxOps == 2
\* largest axis length given to MakeSegment in SpecSeg
MaxSeg == 3
\* the largest iteration or sweep count passed to an algorithm
MaxSweeps == 2

\* ---------------------------------------------------------------- elements
Zero == <<0, 0>>

Conj(z) == <<z[1], 0 - z[2]>>

CAdd(a, b) == <<a[1] + b[1], a[2] + b[2]>>

CSub(a, b) == <<a[1] - b[1], a[2] - b[2]>>

CMul(a, b) == <<a[1] * b[1] - a[2] * b[2], a[1] * b[2] + a[2] * b[1]>>

Max(a, b) == IF a >= b THEN a ELSE b

Min(a, b) == IF a <= b THEN a ELSE b

\* ------------------------------------------------------------------ Matrix
\* Matrix() = default: cols_ = 0 and an empty buffer_
EmptyMatrix == [cols |-> 0, buffer |-> <<>>]

Rows(m) == IF m.cols = 0 THEN 0 ELSE Len(m.buffer) \div m.cols

Columns(m) == m.cols

CorrectSize(size) == Max(0, size)

Fill(n, value) == [k \in 1..n |-> value]

\* explicit Matrix(IndexType sq_size)
MatrixSquare(sq_size) ==
    LET c == CorrectSize(sq_size)
    IN  [cols |-> c, buffer |-> Fill(c * c, Zero)]

\* Matrix(IndexType row_cnt, IndexType col_cnt, T value)
MatrixRowsCols(row_cnt, col_cnt, value) ==
    LET c == CorrectSize(col_cnt)
        b == Fill(c * CorrectSize(row_cnt), value)
    IN  [cols |-> IF row_cnt = 0 THEN 0 ELSE c, buffer |-> b]

\* Matrix(initializer_list<initializer_list<T>>) for a rectangular list,
\* given as the sequence of its rows
MatrixList(list) ==
    LET c == Len(list[1])
    IN  [cols |-> c,
         buffer |-> [k \in 1..(c * Len(list)) |->
                        list[((k - 1) \div c) + 1][((k - 1) % c) + 1]]]

\* the assert of Matrix::operator(): Columns() * row_idx + col_idx < size()
MatInRange(m, row_idx, col_idx) ==
    /\ Columns(m) * row_idx + col_idx >= 0
    /\ Columns(m) * row_idx + col_idx < Len(m.buffer)

\* Matrix::operator()(row_idx, col_idx), once the assert has passed
MatAt(m, row_idx, col_idx) == m.buffer[Columns(m) * row_idx + col_idx + 1]

\* ------------------------------------------------- Matrix::Transpose (in place)
\* a swap that loses the element at a
SwapAtOverwrite(buf, a, b) == [buf EXCEPT ![a + 1] = buf[b + 1]]

\* std::swap(buffer_[a], buffer_[b])
SwapAt(buf, a, b) == [buf EXCEPT ![a + 1] = buf[b + 1], ![b + 1] = buf[a + 1]]

\* a cycle step that does not map last_idx to itself
NextIndexModOnly(swap_idx, rows, last_idx) == (rows * swap_idx) % last_idx

\* swap_idx = (swap_idx == last_idx) ? last_idx : (Rows() * swap_idx) % last_idx
NextIndex(swap_idx, rows, last_idx) ==
    IF swap_idx = last_idx THEN last_idx ELSE (rows * swap_idx) % last_idx

\* the do-while loop that follows the cycle of i
RECURSIVE TransposeCycle(_, _, _, _, _, _)
TransposeCycle(buf, visited, i, swap_idx, rows, last_idx) ==
    LET nxt == NextIndex(swap_idx, rows, last_idx)
        b2  == SwapAt(buf, nxt, i)
        v2  == [visited EXCEPT ![nxt + 1] = TRUE]
    IN  IF nxt = i
        THEN [buf |-> b2, visited |-> v2]
        ELSE TransposeCycle(b2, v2, i, nxt, rows, last_idx)

\* for (i = 1; i < buffer_.size(); ++i) { if (visited[i]) continue; ... }
RECURSIVE TransposeLoop(_, _, _, _, _)
TransposeLoop(buf, visited, i, rows, last_idx) ==
    IF i >= Len(buf)
    THEN buf
    ELSE IF visited[i + 1]
         THEN TransposeLoop(buf, visited, i + 1, rows, last_idx)
         ELSE LET r == TransposeCycle(buf, visited, i, i, rows, last_idx)
              IN  TransposeLoop(r.buf, r.visited, i + 1, rows, last_idx)

\* a Transpose() that keeps cols_
TransposeColsKept(m) == m.cols

\* the new column count: cols_ = Rows()
TransposeCols(m) == Rows(m)

Transpose(m) ==
    [cols   |-> TransposeCols(m),
     buffer |-> TransposeLoop(m.buffer, [k \in 1..Len(m.buffer) |-> FALSE], 1,
                              Rows(m), Len(m.buffer) - 1)]

\* Matrix::Conjugate(): Transpose(), then std::conj on every element
Conjugate(m) ==
    LET t == Transpose(m)
    IN  [t EXCEPT !.buffer = [k \in 1..Len(t.buffer) |-> Conj(t.buffer[k])]]

\* ---------------------------------------------------------- ConstMatrixView
\* a MakeSegment that tests seg.end < 0 instead of seg.end <= 0
MakeSegmentStrictEnd(seg, max_value) ==
    LET e == IF seg.end < 0 \/ seg.end > max_value THEN max_value ELSE seg.end
        b == IF seg.begin >= e \/ seg.begin >= max_value \/ seg.begin < 0
             THEN 0 ELSE seg.begin
    IN  [begin |-> b, end |-> e]

\* static Segment MakeSegment(Segment seg, IndexType max_value)
MakeSegment(seg, max_value) ==
    LET e == IF seg.end <= 0 \/ seg.end > max_value THEN max_value ELSE seg.end
        b == IF seg.begin >= e \/ seg.begin >= max_value \/ seg.begin < 0
             THEN 0 ELSE seg.begin
    IN  [begin |-> b, end |-> e]

Seg(b, e) == [begin |-> b, end |-> e]

\* the default argument {-1, -1}
DefaultSegment == Seg(0 - 1, 0 - 1)

State(t, c) == [is_transposed |-> t, is_conjugated |-> c]

\* no view: ptr_ is null
NoView == [ptr |-> "null", row |-> Seg(0, 0), column |-> Seg(0, 0), state |-> State(FALSE, FALSE)]

\* ConstMatrixView(const Matrix<T>& matrix, Segment row, Segment col, MatrixState state);
\* p names the matrix and m is its value
ConstMatrixView(p, m, row, col, state) ==
    [ptr    |-> p,
     row    |-> MakeSegment(row, IF state.is_transposed THEN Columns(m) ELSE Rows(m)),
     column |-> MakeSegment(col, IF state.is_transposed THEN Rows(m) ELSE Columns(m)),
     state  |-> state]

ViewRows(v) == v.row.end - v.row.begin

ViewColumns(v) == v.column.end - v.column.begin

\* the storage coordinates ConstMatrixView::operator()(row_idx, col_idx) reads
ViewCoords(v, row_idx, col_idx) ==
    IF v.state.is_transposed
    THEN <<v.row.begin + col_idx, v.column.begin + row_idx>>
    ELSE <<v.row.begin + row_idx, v.column.begin + col_idx>>

\* whether the read passes the assert of Matrix::operator()
ViewInRange(v, m, row_idx, col_idx) ==
    LET rc == ViewCoords(v, row_idx, col_idx) IN MatInRange(m, rc[1], rc[2])

\* ConstMatrixView::operator()(row_idx, col_idx) for a complex element type
ViewAt(v, m, row_idx, col_idx) ==
    LET rc == ViewCoords(v, row_idx, col_idx)
        x  == MatAt(m, rc[1], rc[2])
    IN  IF v.state.is_conjugated THEN Conj(x) ELSE x

\* ConstMatrixView::GetRow(index): the assert, then the view returned
GetRowOK(v, index) == index < ViewRows(v)

GetRow(v, m, index) ==
    ConstMatrixView(v.ptr, m, Seg(v.row.begin + index, v.row.begin + index + 1),
                    Seg(v.column.begin, v.column.end), v.state)

GetColumnOK(v, index) == index < ViewColumns(v)

GetColumn(v, m, index) ==
    ConstMatrixView(v.ptr, m, Seg(v.row.begin, v.row.end),
                    Seg(v.column.begin + index, v.column.begin + index + 1), v.state)

\* ConstMatrixView::GetSubmatrix(row, col): the four asserts, then the view
GetSubmatrixOK(v, row, col) ==
    LET r == MakeSegment(row, ViewRows(v))
        c == MakeSegment(col, ViewColumns(v))
    IN  /\ v.row.begin + r.begin < ViewRows(v)
        /\ v.row.begin + r.end <= ViewRows(v)
        /\ v.column.begin + c.begin < ViewColumns(v)
        /\ v.column.begin + c.end <= ViewColumns(v)

GetSubmatrix(v, m, row, col) ==
    LET r == MakeSegment(row, ViewRows(v))
        c == MakeSegment(col, ViewColumns(v))
    IN  ConstMatrixView(v.ptr, m, Seg(v.row.begin + r.begin, v.row.begin + r.end),
                        Seg(v.column.begin + c.begin, v.column.begin + c.end), v.state)

\* static Matrix::Transposed(const ConstMatrixView&)
Transposed(v, m) ==
    ConstMatrixView(v.ptr, m, v.column, v.row,
                    State(~v.state.is_transposed, v.state.is_conjugated))

\* static Matrix::Conjugated(const ConstMatrixView&)
Conjugated(v, m) ==
    ConstMatrixView(v.ptr, m, v.column, v.row,
                    State(~v.state.is_transposed, ~v.state.is_conjugated))

\* ----------------------------------------------------------------- equality
\* utils::IsEqualFloating on elements with integer parts
IsEqualFloating(a, b) == a = b

\* operator==(const Matrix&, const Matrix&): lhs.buffer_ == rhs.buffer_
MatrixEq(lhs, rhs) == lhs.buffer = rhs.buffer

\* every read of operator==(ConstMatrixView, ConstMatrixView) passes its assert
ViewEqInRange(lv, lm, rv, rm) ==
    \/ ViewRows(lv) # ViewRows(rv)
    \/ ViewColumns(lv) # ViewColumns(rv)
    \/ \A i \in 0..(ViewRows(lv) - 1), j \in 0..(ViewColumns(lv) - 1) :
          ViewInRange(lv, lm, i, j) /\ ViewInRange(rv, rm, i, j)

\* operator==(const ConstMatrixView&, const ConstMatrixView&)
ViewEq(lv, lm, rv, rm) ==
    IF ViewRows(lv) # ViewRows(rv) \/ ViewColumns(lv) # ViewColumns(rv)
    THEN FALSE
    ELSE \A i \in 0..(ViewRows(lv) - 1), j \in 0..(ViewColumns(lv) - 1) :
            IsEqualFloating(ViewAt(lv, lm, i, j), ViewAt(rv, rm, i, j))

\* Matrix::View() const
View(p, m) == ConstMatrixView(p, m, DefaultSegment, DefaultSegment, State(FALSE, FALSE))

\* ---------------------------------------------------------------- the state
VARIABLES
    mats,    \* Spec: the owning Matrix M
    view,    \* Spec: the ConstMatrixView of M held by the caller, or NoView
    res,     \* Spec: the last call and what it returned
    input,   \* SpecSeg, SpecMatrix, SpecEq: the arguments drawn
    output   \* SpecSeg, SpecMatrix, SpecEq: what the calls returned

vars == <<mats, view, res, input, output>>

None == [op |-> "none"]

\* a rectangular literal {{1, 2, ..}, ..}: the k-th element in row-major order
LiteralElem(k) == <<k, k % 2>>

LiteralList(r, c) == [i \in 1..r |-> [j \in 1..c |-> LiteralElem((i - 1) * c + j)]]

\* ------------------------------------------------------------------ SpecSeg
\* MakeSegment as a pure function of its arguments
InitSeg ==
    /\ mats = EmptyMatrix /\ view = NoView /\ res = None
    /\ input \in [seg : [begin : (0 - 2)..(MaxSeg + 1), end : (0 - 2)..(MaxSeg + 1)],
                  max_value : 0..MaxSeg]
    /\ output = None

CallMakeSegment ==
    /\ output = None
    /\ output' = [op |-> "MakeSegment", seg |-> MakeSegment(input.seg, input.max_value)]
    /\ UNCHANGED <<mats, view, res, input>>

NextSeg == CallMakeSegment

SpecSeg == InitSeg /\ [][NextSeg]_vars

\* --------------------------------------------------------------- SpecMatrix
\* one owning Matrix: Transpose(), Conjugate() and operator()
InitMatrix ==
    /\ mats = EmptyMatrix /\ view = NoView /\ res = None
    /\ \E r \in 1..MaxTrDim, c \in 0..MaxTrDim :
          input = MatrixList(LiteralList(r, c))
    /\ output = [op |-> "init", m |-> input, ops |-> <<>>]

CallTranspose ==
    /\ Len(output.ops) < MaxOps
    /\ output' = [op |-> "Transpose", m |-> Transpose(output.m),
                  ops |-> Append(output.ops, "T")]
    /\ UNCHANGED <<mats, view, res, input>>

CallConjugate ==
    /\ Len(output.ops) < MaxOps
    /\ output' = [op |-> "Conjugate", m |-> Conjugate(output.m),
                  ops |-> Append(output.ops, "C")]
    /\ UNCHANGED <<mats, view, res, input>>

\* T operator()(row_idx, col_idx) const on the current matrix
CallAccess ==
    /\ output.op # "Access"
    /\ \E row_idx \in 0..MaxTrDim, col_idx \in 0..MaxTrDim :
          output' = [op |-> "Access", m |-> output.m, ops |-> output.ops,
                     row_idx |-> row_idx, col_idx |-> col_idx,
                     ok |-> MatInRange(output.m, row_idx, col_idx),
                     val |-> IF MatInRange(output.m, row_idx, col_idx)
                             THEN MatAt(output.m, row_idx, col_idx) ELSE Zero]
    /\ UNCHANGED <<mats, view, res, input>>

NextMatrix == CallTranspose \/ CallConjugate \/ CallAccess

SpecMatrix == InitMatrix /\ [][NextMatrix]_vars

\* ------------------------------------------------------------------- SpecEq
\* operator== on two operands, each an owning Matrix or a view of one
Operand(p, m, as_view, transposed) ==
    IF ~as_view THEN [kind |-> "Matrix", m |-> m, v |-> NoView]
    ELSE [kind |-> "View", m |-> m,
          v |-> IF transposed THEN Transposed(View(p, m), m) ELSE View(p, m)]

OperandRows(x) == IF x.kind = "Matrix" THEN Rows(x.m) ELSE ViewRows(x.v)

OperandColumns(x) == IF x.kind = "Matrix" THEN Columns(x.m) ELSE ViewColumns(x.v)

\* a Matrix operand of a mixed comparison goes through Matrix::View()
OperandView(p, x) == IF x.kind = "Matrix" THEN View(p, x.m) ELSE x.v

\* the overloads of operator==: only Matrix == Matrix compares the buffers
Equal(lhs, rhs) ==
    IF lhs.kind = "Matrix" /\ rhs.kind = "Matrix"
    THEN MatrixEq(lhs.m, rhs.m)
    ELSE ViewEq(OperandView("lhs", lhs), lhs.m, OperandView("rhs", rhs), rhs.m)

InitEq ==
    /\ mats = EmptyMatrix /\ view = NoView /\ res = None
    /\ \E r \in 1..MaxTrDim, c \in 1..MaxTrDim, r2 \in 1..MaxTrDim, c2 \in 1..MaxTrDim,
          filled \in BOOLEAN, lv \in BOOLEAN, lt \in BOOLEAN, rv \in BOOLEAN, rt \in BOOLEAN :
          /\ (lt => lv) /\ (rt => rv)
          /\ input = [lhs |-> Operand("lhs", MatrixList(LiteralList(r, c)), lv, lt),
                      rhs |-> Operand("rhs", IF filled
                                         THEN MatrixRowsCols(r2, c2, LiteralElem(1))
                                         ELSE MatrixList(LiteralList(r2, c2)), rv, rt)]
    /\ output = None

CallEqual ==
    /\ output = None
    /\ output' = [op |-> "Equal", result |-> Equal(input.lhs, input.rhs)]
    /\ UNCHANGED <<mats, view, res, input>>

CallNotEqual ==
    /\ output = None
    /\ output' = [op |-> "NotEqual", result |-> ~Equal(input.lhs, input.rhs)]
    /\ UNCHANGED <<mats, view, res, input>>

NextEq == CallEqual \/ CallNotEqual

SpecEq == InitEq /\ [][NextEq]_vars

\* ------------------------------------------------- product and construction
RECURSIVE DotSum(_, _, _, _, _, _, _)
\* T sum = 0; for (k = 0; k < lhs.Columns(); ++k) sum += lhs(i, k) * rhs(k, j);
\* k counts the terms still to add
DotSum(lv, lm, rv, rm, i, j, k) ==
    IF k = 0 THEN Zero
    ELSE CAdd(DotSum(lv, lm, rv, rm, i, j, k - 1),
              CMul(ViewAt(lv, lm, i, k - 1), ViewAt(rv, rm, k - 1, j)))

\* the assert of operator*(ConstMatrixView, ConstMatrixView) and of every read
ProductOK(lv, lm, rv, rm) ==
    /\ ViewColumns(lv) = ViewRows(rv)
    /\ (ViewRows(lv) = 0 \/ ViewColumns(rv) = 0
        \/ \A i \in 0..(ViewRows(lv) - 1), j \in 0..(ViewColumns(rv) - 1),
              k \in 0..(ViewColumns(lv) - 1) :
              ViewInRange(lv, lm, i, k) /\ ViewInRange(rv, rm, k, j))

\* operator*(const ConstMatrixView&, const ConstMatrixView&); RoundZeroes()
\* leaves elements with integer parts as they are
Product(lv, lm, rv, rm) ==
    IF ViewRows(lv) = 0 \/ ViewColumns(rv) = 0
    THEN EmptyMatrix
    ELSE LET r == ViewRows(lv)
             c == ViewColumns(rv)
             z == MatrixRowsCols(r, c, Zero)
         IN  [z EXCEPT !.buffer =
                [n \in 1..Len(z.buffer) |->
                    DotSum(lv, lm, rv, rm, (n - 1) \div c, (n - 1) % c, ViewColumns(lv))]]

\* every read of Matrix(const ConstMatrixView&) passes its assert
FromViewOK(v, m) ==
    \A i \in 0..(ViewRows(v) - 1), j \in 0..(ViewColumns(v) - 1) : ViewInRange(v, m, i, j)

\* Matrix(const ConstMatrixView& rhs): Matrix(rhs.Rows(), rhs.Columns()), then
\* (*this)(i, j) = val for every element of rhs
MatrixFromView(v, m) ==
    LET z == MatrixRowsCols(ViewRows(v), ViewColumns(v), Zero)
    IN  [z EXCEPT !.buffer =
            [n \in 1..Len(z.buffer) |->
                ViewAt(v, m, (n - 1) \div Columns(z), (n - 1) % Columns(z))]]

\* a move that resets cols_ and copies the buffer instead of moving it
MovedFromBufferKept(m) == [cols |-> 0, buffer |-> m.buffer]

\* the source of a move: std::exchange(rhs.cols_, 0) and a moved-from buffer_
MovedFrom(m) == EmptyMatrix

InBounds(m) == \A k \in 1..Len(m.buffer) :
    /\ m.buffer[k][1] <= MaxVal /\ 0 - m.buffer[k][1] <= MaxVal
    /\ m.buffer[k][2] <= MaxVal /\ 0 - m.buffer[k][2] <= MaxVal

\* --------------------------------------------------------------------- Spec
\* one owning Matrix and the view of it the caller holds; the other matrices
\* of an assignment belong to other owners
Held == "M"

FillVals == {Zero, <<1, 0>>}

Result(op, ok, src, args, val) ==
    [op |-> op, ok |-> ok, src |-> src, args |-> args, val |-> val]

SegArgs == {DefaultSegment} \cup
           {Seg(b, e) : b \in 0..(MaxDim - 1), e \in 1..MaxDim}

\* the matrices another owner can hold
Others == {MatrixList(LiteralList(r, c)) : r \in 1..MaxDim, c \in 1..MaxDim}

Init ==
    /\ mats = EmptyMatrix
    /\ view = NoView
    /\ res = Result("init", TRUE, NoView, <<>>, Zero)
    /\ input = None
    /\ output = None

\* the held matrix becomes m
Assign(m, op) ==
    /\ mats' = m
    /\ res' = Result(op, TRUE, NoView, <<>>, Zero)
    /\ UNCHANGED <<view, input, output>>

\* a failed assert: the program aborts inside the call
Abort(op, args) ==
    /\ res' = Result(op, FALSE, NoView, args, Zero)
    /\ UNCHANGED <<mats, view, input, output>>

\* M = Matrix<T>(sq_size)
ConstructSquare ==
    /\ res.ok
    /\ \E n \in 0..MaxDim : Assign(MatrixSquare(n), "Matrix(sq_size)")

\* M = Matrix<T>(row_cnt, col_cnt, value)
ConstructRowsCols ==
    /\ res.ok
    /\ \E r \in (0 - 1)..MaxDim, c \in (0 - 1)..MaxDim, value \in FillVals :
          Assign(MatrixRowsCols(r, c, value), "Matrix(row_cnt, col_cnt, value)")

\* M = {{..}, ..}
ConstructList ==
    /\ res.ok
    /\ \E r \in 1..MaxDim, c \in 0..MaxDim :
          Assign(MatrixList(LiteralList(r, c)), "Matrix(list)")

\* M = Matrix<T>(view)
ConstructFromView ==
    /\ res.ok
    /\ view # NoView
    /\ IF FromViewOK(view, mats)
       THEN Assign(MatrixFromView(view, mats), "Matrix(view)")
       ELSE Abort("Matrix(view)", <<>>)

\* M = other
CopyAssign ==
    /\ res.ok
    /\ \E other \in Others : Assign(other, "operator=(const Matrix&)")

\* M = std::move(other): cols_ = std::exchange(rhs.cols_, 0);
\* buffer_ = std::move(rhs.buffer_)
MoveAssign ==
    /\ res.ok
    /\ \E other \in Others : Assign(other, "operator=(Matrix&&)")

\* other = std::move(M): M is the moved-from matrix
MoveAssignFrom ==
    /\ res.ok
    /\ Assign(MovedFrom(mats), "other = std::move(M)")

\* M = std::move(M): cols_ is restored by the assignment, and the self-moved
\* buffer is kept or emptied, as the standard library chooses
MoveAssignSelf ==
    /\ res.ok
    /\ \E b \in {mats.buffer, <<>>} :
          Assign([cols |-> mats.cols, buffer |-> b], "M = std::move(M)")

DoTranspose ==
    /\ res.ok
    /\ Assign(Transpose(mats), "Transpose")

DoConjugate ==
    /\ res.ok
    /\ Assign(Conjugate(mats), "Conjugate")

\* Matrix::operator*=(const ConstMatrixView& rhs): *this = *this * rhs
MulAssignBy(rv) ==
    LET lv == View(Held, mats)
    IN  IF ProductOK(lv, mats, rv, mats)
        THEN /\ InBounds(Product(lv, mats, rv, mats))
             /\ Assign(Product(lv, mats, rv, mats), "operator*=")
        ELSE Abort("operator*=", <<>>)

\* M *= view
MulAssignView ==
    /\ res.ok
    /\ view # NoView
    /\ MulAssignBy(view)

\* M *= M, which is M *= M.View()
MulAssignMatrix ==
    /\ res.ok
    /\ MulAssignBy(View(Held, mats))

\* ------------------------------------------------------------ view creation
\* src is the view the call was made on; it is kept for the two calls whose
\* round trip is followed
ViewCall(op, args, ok, v) ==
    IF ok
    THEN /\ view' = v
         /\ res' = Result(op, TRUE, IF op \in {"Transposed", "Conjugated"} THEN view ELSE NoView,
                          args, Zero)
         /\ UNCHANGED <<mats, input, output>>
    ELSE Abort(op, args)

\* view = M.View()
MakeView ==
    /\ res.ok
    /\ ViewCall("View", <<>>, TRUE, View(Held, mats))

DoGetRow ==
    /\ res.ok /\ view # NoView
    /\ \E index \in 0..MaxDim :
          ViewCall("GetRow", <<index>>, GetRowOK(view, index), GetRow(view, mats, index))

DoGetColumn ==
    /\ res.ok /\ view # NoView
    /\ \E index \in 0..MaxDim :
          ViewCall("GetColumn", <<index>>, GetColumnOK(view, index),
                   GetColumn(view, mats, index))

DoGetSubmatrix ==
    /\ res.ok /\ view # NoView
    /\ \E row \in SegArgs, col \in SegArgs :
          ViewCall("GetSubmatrix", <<row, col>>, GetSubmatrixOK(view, row, col),
                   GetSubmatrix(view, mats, row, col))

DoTransposed ==
    /\ res.ok /\ view # NoView
    /\ ViewCall("Transposed", <<>>, TRUE, Transposed(view, mats))

DoConjugated ==
    /\ res.ok /\ view # NoView
    /\ ViewCall("Conjugated", <<>>, TRUE, Conjugated(view, mats))

\* view(row_idx, col_idx) for an element of the view
ViewRead ==
    /\ res.ok /\ view # NoView
    /\ \E row_idx \in 0..(ViewRows(view) - 1), col_idx \in 0..(ViewColumns(view) - 1) :
          IF ViewInRange(view, mats, row_idx, col_idx)
          THEN /\ res' = Result("operator()", TRUE, NoView, <<row_idx, col_idx>>,
                                ViewAt(view, mats, row_idx, col_idx))
               /\ UNCHANGED <<mats, view, input, output>>
          ELSE Abort("operator()", <<row_idx, col_idx>>)

Next ==
    \/ ConstructSquare
    \/ ConstructRowsCols
    \/ ConstructList
    \/ ConstructFromView
    \/ CopyAssign
    \/ MoveAssign
    \/ MoveAssignFrom
    \/ MoveAssignSelf
    \/ DoTranspose
    \/ DoConjugate
    \/ MulAssignView
    \/ MulAssignMatrix
    \/ MakeView
    \/ DoGetRow
    \/ DoGetColumn
    \/ DoGetSubmatrix
    \/ DoTransposed
    \/ DoConjugated
    \/ ViewRead

Spec == Init /\ [][Next]_vars

\* -------------------------------------------------------------- SpecStorage
\* the owning Matrix alone: every operation that makes or changes one, the
\* views being temporaries of the call
ViewsOf(v, m) ==
    {Transposed(v, m), Conjugated(v, m)}
    \cup {GetRow(v, m, k) : k \in {i \in 0..MaxDim : GetRowOK(v, i)}}
    \cup {GetColumn(v, m, k) : k \in {i \in 0..MaxDim : GetColumnOK(v, i)}}
    \cup {GetSubmatrix(v, m, sg[1], sg[2]) :
            sg \in {x \in SegArgs \X SegArgs : GetSubmatrixOK(v, x[1], x[2])}}

\* M.View(), its transposed and adjoint views, and the views one call away
\* from these
TempViews(m) ==
    LET full == View(Held, m)
        tops == {full, Transposed(full, m), Conjugated(full, m)}
    IN  tops \cup UNION {ViewsOf(v, m) : v \in tops}

\* M = Matrix<T>(v) for a temporary view v of M
ConstructFromTemp ==
    /\ res.ok
    /\ \E v \in TempViews(mats) :
          IF FromViewOK(v, mats)
          THEN Assign(MatrixFromView(v, mats), "Matrix(view)")
          ELSE Abort("Matrix(view)", <<>>)

\* M *= v for a temporary view v of M
MulAssignTemp ==
    /\ res.ok
    /\ \E v \in TempViews(mats) : MulAssignBy(v)

\* the element-wise assignments go through MatrixView, which writes the
\* elements of the Storage in place: every element is multiplied by scalar
Scaled(m, scalar) ==
    [m EXCEPT !.buffer = [k \in 1..Len(m.buffer) |-> CMul(m.buffer[k], scalar)]]

\* every element of m has the element of rhs at the same place added
Added(m, rhs) ==
    [m EXCEPT !.buffer = [k \in 1..Len(m.buffer) |->
                             CAdd(m.buffer[k], rhs.buffer[k])]]

\* M += M: the operand is the matrix itself, so the shapes agree
AddAssign ==
    /\ res.ok
    /\ InBounds(Added(mats, mats))
    /\ Assign(Added(mats, mats), "operator+=")

\* M *= scalar
ScaleAssign ==
    /\ res.ok
    /\ \E scalar \in {<<0 - 1, 0>>} :
          Assign(Scaled(mats, scalar), "operator*=(T)")

NextStorage ==
    \/ AddAssign
    \/ ScaleAssign
    \/ ConstructSquare
    \/ ConstructRowsCols
    \/ ConstructList
    \/ ConstructFromTemp
    \/ CopyAssign
    \/ MoveAssign
    \/ MoveAssignFrom
    \/ MoveAssignSelf
    \/ DoTranspose
    \/ DoConjugate
    \/ MulAssignTemp

SpecStorage == Init /\ [][NextStorage]_vars

\* -------------------------------------------------------------- SpecProduct
\* operator* on two matrix-like operands: each is a view of its own literal
\* Matrix (an owning operand goes through Matrix::View())
ProductOperands ==
    UNION {{[m |-> MatrixList(LiteralList(r, c)), v |-> v] :
                v \in TempViews(MatrixList(LiteralList(r, c)))} :
           r \in 1..MaxDim, c \in 0..MaxDim}

InitProduct ==
    /\ mats = EmptyMatrix /\ view = NoView /\ res = None
    /\ input \in [lhs : ProductOperands, rhs : ProductOperands]
    /\ output = None

\* lhs * rhs
CallProduct ==
    /\ output = None
    /\ LET ok == ProductOK(input.lhs.v, input.lhs.m, input.rhs.v, input.rhs.m)
       IN  output' = [op |-> "operator*", ok |-> ok,
                      result |-> IF ok
                                 THEN Product(input.lhs.v, input.lhs.m,
                                              input.rhs.v, input.rhs.m)
                                 ELSE EmptyMatrix]
    /\ UNCHANGED <<mats, view, res, input>>

\* lhs *= rhs on an owning lhs: *this = *this * rhs
CallMulAssign ==
    /\ output = None
    /\ input.lhs.v = View(Held, input.lhs.m)
    /\ LET ok == ProductOK(input.lhs.v, input.lhs.m, input.rhs.v, input.rhs.m)
       IN  output' = [op |-> "operator*=", ok |-> ok,
                      result |-> IF ok
                                 THEN Product(input.lhs.v, input.lhs.m,
                                              input.rhs.v, input.rhs.m)
                                 ELSE input.lhs.m]
    /\ UNCHANGED <<mats, view, res, input>>

NextProduct == CallProduct \/ CallMulAssign

SpecProduct == InitProduct /\ [][NextProduct]_vars

\* ------------------------------------------------------------------ SpecSum
\* operator+ and operator- build the result from lhs, Matrix<T> res = lhs, and
\* then add or subtract rhs in place through MatrixView, element by element;
\* the shapes are required to be the same

\* the shape assert and the asserts of every read of lhs and rhs
SumOK(lv, lm, rv, rm) ==
    /\ FromViewOK(lv, lm)
    /\ ViewRows(lv) = ViewRows(rv) /\ ViewColumns(lv) = ViewColumns(rv)
    /\ FromViewOK(rv, rm)

\* operator+(const ConstMatrixView&, const ConstMatrixView&)
Sum(lv, lm, rv, rm) ==
    LET z == MatrixFromView(lv, lm)
    IN  [z EXCEPT !.buffer =
            [n \in 1..Len(z.buffer) |->
                CAdd(z.buffer[n],
                     ViewAt(rv, rm, (n - 1) \div Columns(z), (n - 1) % Columns(z)))]]

\* operator-(const ConstMatrixView&, const ConstMatrixView&)
Difference(lv, lm, rv, rm) ==
    LET z == MatrixFromView(lv, lm)
    IN  [z EXCEPT !.buffer =
            [n \in 1..Len(z.buffer) |->
                CSub(z.buffer[n],
                     ViewAt(rv, rm, (n - 1) \div Columns(z), (n - 1) % Columns(z)))]]

InitSum ==
    /\ mats = EmptyMatrix /\ view = NoView /\ res = None
    /\ input \in [lhs : ProductOperands, rhs : ProductOperands]
    /\ output = None

\* (A + B) - B: the sum is an owning Matrix and enters operator- through View()
CallAddThenSubtract ==
    /\ output = None
    /\ LET A == input.lhs
           B == input.rhs
       IN  IF ~SumOK(A.v, A.m, B.v, B.m)
           THEN output' = [op |-> "(A + B) - B", ok |-> FALSE, result |-> EmptyMatrix,
                           lhs |-> A, rhs |-> B]
           ELSE LET sum == Sum(A.v, A.m, B.v, B.m)
                    sv  == View("sum", sum)
                IN  output' = [op |-> "(A + B) - B",
                               ok |-> SumOK(sv, sum, B.v, B.m),
                               result |-> IF SumOK(sv, sum, B.v, B.m)
                                          THEN Difference(sv, sum, B.v, B.m)
                                          ELSE EmptyMatrix,
                               lhs |-> A, rhs |-> B]
    /\ UNCHANGED <<mats, view, res, input>>

\* A + B alone
CallAdd ==
    /\ output = None
    /\ LET A == input.lhs
           B == input.rhs
       IN  output' = [op |-> "A + B", ok |-> SumOK(A.v, A.m, B.v, B.m),
                      result |-> IF SumOK(A.v, A.m, B.v, B.m)
                                 THEN Sum(A.v, A.m, B.v, B.m) ELSE EmptyMatrix,
                      lhs |-> A, rhs |-> B]
    /\ UNCHANGED <<mats, view, res, input>>

NextSum == CallAddThenSubtract \/ CallAdd

SpecSum == InitSum /\ [][NextSum]_vars

\* ------------------------------------------------------------ SpecTranspose
\* Matrix::Transpose() statement by statement: the for loop over i, and the
\* do-while loop that follows the cycle of i one swap at a time.  owner[k + 1]
\* is the set of start indices i whose cycle has processed index k.

InitTranspose ==
    /\ mats = EmptyMatrix /\ view = NoView /\ res = None
    /\ \E r \in 1..MaxTrDim, c \in 0..MaxTrDim :
          input = [call |-> "Transpose()", m |-> MatrixList(LiteralList(r, c))]
    /\ output = None

\* std::vector<bool> visited(buffer_.size(), false); last_idx = size() - 1; i = 1
TransposeBegin ==
    /\ output = None
    /\ output' = [op |-> "Transpose()", pc |-> "for", m |-> input.m,
                  visited |-> [k \in 1..Len(input.m.buffer) |-> FALSE],
                  last_idx |-> Len(input.m.buffer) - 1,
                  i |-> 1, swap_idx |-> 0,
                  owner |-> [k \in 1..Len(input.m.buffer) |-> {}]]
    /\ UNCHANGED <<mats, view, res, input>>

\* i < buffer_.size() and visited[i]: continue
TransposeContinue ==
    /\ output # None /\ output.op = "Transpose()" /\ output.pc = "for"
    /\ output.i < Len(output.m.buffer) /\ output.visited[output.i + 1]
    /\ output' = [output EXCEPT !.i = @ + 1]
    /\ UNCHANGED <<mats, view, res, input>>

\* i < buffer_.size() and not visited[i]: auto swap_idx = i
TransposeEnterCycle ==
    /\ output # None /\ output.op = "Transpose()" /\ output.pc = "for"
    /\ output.i < Len(output.m.buffer) /\ ~output.visited[output.i + 1]
    /\ output' = [output EXCEPT !.swap_idx = output.i, !.pc = "do"]
    /\ UNCHANGED <<mats, view, res, input>>

\* one pass of the do-while body and its test swap_idx != i; an index outside
\* the buffer stops the model at "out of range"
TransposeCycleStep ==
    /\ output # None /\ output.op = "Transpose()" /\ output.pc = "do"
    /\ LET nxt == NextIndex(output.swap_idx, Rows(output.m), output.last_idx)
       IN  output' =
             IF nxt < 0 \/ nxt >= Len(output.m.buffer)
             THEN [output EXCEPT !.swap_idx = nxt, !.pc = "out of range"]
             ELSE [output EXCEPT
                     !.swap_idx = nxt,
                     !.m = [@ EXCEPT !.buffer = SwapAt(@, nxt, output.i)],
                     !.visited = [@ EXCEPT ![nxt + 1] = TRUE],
                     !.owner = [@ EXCEPT ![nxt + 1] = @ \cup {output.i}],
                     !.i = IF nxt = output.i THEN @ + 1 ELSE @,
                     !.pc = IF nxt = output.i THEN "for" ELSE "do"]
    /\ UNCHANGED <<mats, view, res, input>>

\* i < buffer_.size() fails: cols_ = Rows()
TransposeEnd ==
    /\ output # None /\ output.op = "Transpose()" /\ output.pc = "for"
    /\ ~(output.i < Len(output.m.buffer))
    /\ output' = [output EXCEPT !.m = [@ EXCEPT !.cols = TransposeCols(output.m)],
                                 !.pc = "done"]
    /\ UNCHANGED <<mats, view, res, input>>

NextTranspose ==
    \/ TransposeBegin
    \/ TransposeContinue
    \/ TransposeEnterCycle
    \/ TransposeCycleStep
    \/ TransposeEnd

SpecTranspose == InitTranspose /\ [][NextTranspose]_vars

\* the call is the only thread and every statement that can run does run
FairTranspose == SpecTranspose /\ WF_vars(NextTranspose)

\* ------------------------------------------------------------- SpecDiagonal
\* static Matrix Identity(IndexType size) of the view-based Matrix
IdentityMatrix(size) ==
    LET z == MatrixSquare(size)
    IN  [z EXCEPT !.buffer =
            [n \in 1..Len(z.buffer) |->
                IF (n - 1) \div Columns(z) = (n - 1) % Columns(z)
                THEN <<1, 0>> ELSE Zero]]

\* the asserts Diagonal(const ConstMatrixView&) meets: its own, and the one of
\* every read ApplyToEach makes
DiagonalOK(v, m) ==
    /\ ViewRows(v) = 1 \/ ViewColumns(v) = 1
    /\ FromViewOK(v, m)

\* static Matrix Diagonal(const ConstMatrixView& vec): res(idx, idx) = val with
\* idx = max(i, j) for every element of vec; under the assert one element of
\* vec has each idx
Diagonal(v, m) ==
    LET z == MatrixSquare(Max(ViewRows(v), ViewColumns(v)))
        Hits(idx) == {ij \in (0..(ViewRows(v) - 1)) \X (0..(ViewColumns(v) - 1)) :
                        Max(ij[1], ij[2]) = idx}
    IN  [z EXCEPT !.buffer =
            [n \in 1..Len(z.buffer) |->
                LET p == (n - 1) \div Columns(z)
                    q == (n - 1) % Columns(z)
                IN  IF p = q /\ Hits(p) # {}
                    THEN LET ij == CHOOSE x \in Hits(p) : TRUE
                         IN  ViewAt(v, m, ij[1], ij[2])
                    ELSE Zero]]

InitDiagonal ==
    /\ mats = EmptyMatrix /\ view = NoView /\ res = None
    /\ input \in [vec : ProductOperands, size : (0 - 1)..(MaxDim + 1)]
    /\ output = None

\* Matrix<T>::Diagonal(vec), an owning vec entering through View()
CallDiagonal ==
    /\ output = None
    /\ LET vec == input.vec
       IN  output' = [op |-> "Diagonal", ok |-> DiagonalOK(vec.v, vec.m),
                      result |-> IF DiagonalOK(vec.v, vec.m)
                                 THEN Diagonal(vec.v, vec.m) ELSE EmptyMatrix]
    /\ UNCHANGED <<mats, view, res, input>>

\* Matrix<T>::Identity(size)
CallIdentity ==
    /\ output = None
    /\ output' = [op |-> "Identity", ok |-> TRUE, result |-> IdentityMatrix(input.size)]
    /\ UNCHANGED <<mats, view, res, input>>

NextDiagonal == CallDiagonal \/ CallIdentity

SpecDiagonal == InitDiagonal /\ [][NextDiagonal]_vars

\* ---------------------------------------------------------- real elements
\* The algorithms run on a real element type.  A value is the fraction n / d
\* in lowest terms with d > 0; the quotient 0 / 0 is NaN, written n = d = 0,
\* and every operation on NaN gives NaN.
NaN == [n |-> 0, d |-> 0]

IsNaN(x) == x.d = 0

Abs(k) == IF k < 0 THEN 0 - k ELSE k

RECURSIVE Gcd(_, _)
Gcd(a, b) == IF b = 0 THEN a ELSE Gcd(b, a % b)

\* the fraction n / d, d # 0, in lowest terms
Frac(n, d) ==
    LET g == Gcd(Abs(n), Abs(d))
    IN  IF d > 0 THEN [n |-> n \div g, d |-> d \div g]
        ELSE [n |-> (0 - n) \div g, d |-> (0 - d) \div g]

Real(k) == [n |-> k, d |-> 1]

RAdd(x, y) ==
    IF IsNaN(x) \/ IsNaN(y) THEN NaN ELSE Frac(x.n * y.d + y.n * x.d, x.d * y.d)

RSub(x, y) ==
    IF IsNaN(x) \/ IsNaN(y) THEN NaN ELSE Frac(x.n * y.d - y.n * x.d, x.d * y.d)

RMul(x, y) ==
    IF IsNaN(x) \/ IsNaN(y) THEN NaN ELSE Frac(x.n * y.n, x.d * y.d)

\* x / y: 0 / 0 is NaN; the algorithms divide a non-zero value only by a
\* non-zero one
RDiv(x, y) ==
    IF IsNaN(x) \/ IsNaN(y) \/ y.n = 0 THEN NaN ELSE Frac(x.n * y.d, x.d * y.n)

RAbs(x) == [n |-> Abs(x.n), d |-> x.d]

\* the integer square root of a perfect square
ISqrt(k) == CHOOSE q \in 0..k : q * q = k

IsSquare(k) == \E q \in 0..k : q * q = k

\* std::sqrt on a value whose root is a fraction
RSqrt(x) == IF IsNaN(x) THEN NaN ELSE [n |-> ISqrt(x.n), d |-> ISqrt(x.d)]

\* utils::Sign, with sign(0) = 1 in the shift formula
Sign(x) == IF IsNaN(x) THEN NaN ELSE IF x.n < 0 THEN Real(0 - 1) ELSE Real(1)

\* utils::IsZeroFloating and utils::IsEqualFloating on exact values: NaN is
\* neither zero nor equal to anything
IsZeroFloating(x) == ~IsNaN(x) /\ x.n = 0

IsEqualReal(x, y) == ~IsNaN(x) /\ ~IsNaN(y) /\ x = y

\* operator== of the element type: NaN differs from every value and itself
REq(x, y) == ~IsNaN(x) /\ ~IsNaN(y) /\ x = y

\* a 2 x 2 matrix of real elements, row by row
Matrix2(a, b, c, d) == [cols |-> 2, buffer |-> <<a, b, c, d>>]

\* ---------------------------------------------------------------- SpecShift
\* the asserts of GetWilkinsonShift: 2 x 2 and symmetric
GetWilkinsonShiftOK(matrix) ==
    /\ Rows(matrix) = 2
    /\ Columns(matrix) = 2
    /\ REq(MatAt(matrix, 0, 1), MatAt(matrix, 1, 0))

\* T GetWilkinsonShift(const MatrixView<T>& matrix)
GetWilkinsonShift(matrix) ==
    LET d == RDiv(RSub(MatAt(matrix, 0, 0), MatAt(matrix, 1, 1)), Real(2))
        bb == RMul(MatAt(matrix, 0, 1), MatAt(matrix, 0, 1))
        coefficient == RAdd(RAbs(d), RSqrt(RAdd(RMul(d, d), bb)))
    IN  RSub(MatAt(matrix, 1, 1), RDiv(RMul(Sign(d), bb), coefficient))

\* the blocks whose shift is a fraction: (a - d)^2 + 4 b^2 is a square
ShiftBlocks ==
    {Matrix2(Real(a), Real(b), Real(c), Real(d)) :
        a \in (0 - MaxVal)..MaxVal, b \in (0 - MaxVal)..MaxVal,
        c \in (0 - MaxVal)..MaxVal, d \in (0 - MaxVal)..MaxVal}

InitShift ==
    /\ mats = EmptyMatrix /\ view = NoView /\ res = None
    /\ input \in {m \in ShiftBlocks :
          LET a == MatAt(m, 0, 0).n
              b == MatAt(m, 0, 1).n
              d == MatAt(m, 1, 1).n
          IN  IsSquare((a - d) * (a - d) + 4 * b * b)}
    /\ output = None

CallGetWilkinsonShift ==
    /\ output = None
    /\ output' = IF GetWilkinsonShiftOK(input)
                 THEN [op |-> "GetWilkinsonShift", ok |-> TRUE,
                       shift |-> GetWilkinsonShift(input)]
                 ELSE [op |-> "GetWilkinsonShift", ok |-> FALSE, shift |-> NaN]
    /\ UNCHANGED <<mats, view, res, input>>

NextShift == CallGetWilkinsonShift

SpecShift == InitShift /\ [][NextShift]_vars

\* --------------------------------------------------------------- SpecBidiag
\* Matrix<T>::Identity(2)
Identity2 == Matrix2(Real(1), Real(0), Real(0), Real(1))

\* utils::IsBidiagonal on a 2 x 2 matrix: nothing below the main diagonal
IsBidiagonal(m) == IsZeroFloating(MatAt(m, 1, 0))

\* Matrix::RoundZeroes(): el = IsZeroFloating(el) ? T{0} : el
RoundZeroes(m) ==
    [m EXCEPT !.buffer = [k \in 1..Len(m.buffer) |->
                             IF IsZeroFloating(m.buffer[k]) THEN Real(0)
                             ELSE m.buffer[k]]]

\* the rotation of the seeds a, b: r = sqrt(a^2 + b^2), c = a / r, s = b / r,
\* the identity when r is zero
GivensCoefficients(a, b) ==
    LET r == RSqrt(RAdd(RMul(a, a), RMul(b, b)))
    IN  IF IsZeroFloating(r) THEN [c |-> Real(1), s |-> Real(0)]
        ELSE [c |-> RDiv(a, r), s |-> RDiv(b, r)]

\* rows i and j of m become c * row_i + s * row_j and -s * row_i + c * row_j
GivensLeftRotation(m, i, j, a, b) ==
    LET g == GivensCoefficients(a, b)
    IN  [m EXCEPT !.buffer = [n \in 1..Len(m.buffer) |->
            LET row == (n - 1) \div Columns(m)
                col == (n - 1) % Columns(m)
            IN  IF row = i
                THEN RAdd(RMul(g.c, MatAt(m, i, col)), RMul(g.s, MatAt(m, j, col)))
                ELSE IF row = j
                THEN RSub(RMul(g.c, MatAt(m, j, col)), RMul(g.s, MatAt(m, i, col)))
                ELSE m.buffer[n]]]

\* columns i and j of m become c * col_i + s * col_j and -s * col_i + c * col_j
GivensRightRotation(m, i, j, a, b) ==
    LET g == GivensCoefficients(a, b)
    IN  [m EXCEPT !.buffer = [n \in 1..Len(m.buffer) |->
            LET row == (n - 1) \div Columns(m)
                col == (n - 1) % Columns(m)
            IN  IF col = i
                THEN RAdd(RMul(g.c, MatAt(m, row, i)), RMul(g.s, MatAt(m, row, j)))
                ELSE IF col = j
                THEN RSub(RMul(g.c, MatAt(m, row, j)), RMul(g.s, MatAt(m, row, i)))
                ELSE m.buffer[n]]]

RECURSIVE RDot(_, _, _, _, _)
\* T sum = 0; for (k = 0; k < lhs.Columns(); ++k) sum += lhs(i, k) * rhs(k, j)
RDot(lhs, rhs, i, j, k) ==
    IF k = 0 THEN Real(0)
    ELSE RAdd(RDot(lhs, rhs, i, j, k - 1),
              RMul(MatAt(lhs, i, k - 1), MatAt(rhs, k - 1, j)))

\* the product of two matrices of real elements, lhs.Columns() == rhs.Rows()
RProduct(lhs, rhs) ==
    [cols |-> Columns(rhs),
     buffer |-> [n \in 1..(Rows(lhs) * Columns(rhs)) |->
                    RDot(lhs, rhs, (n - 1) \div Columns(rhs),
                         (n - 1) % Columns(rhs), Columns(lhs))]]

\* BB of the sweep, from the trailing block of S (r == 2: no S(r - 3, c - 2))
GramBlock(S) ==
    LET bb00 == RAdd(RMul(MatAt(S, 0, 0), MatAt(S, 0, 0)), Real(0))
        bb10 == RMul(MatAt(S, 0, 0), MatAt(S, 0, 1))
        bb11 == RAdd(RMul(MatAt(S, 0, 1), MatAt(S, 0, 1)),
                     RMul(MatAt(S, 1, 1), MatAt(S, 1, 1)))
    IN  Matrix2(bb00, bb10, bb10, bb11)

\* f_elem and s_elem of the column pair at index i
ColumnSeeds(S, i, shift) ==
    IF i > 0
    THEN <<MatAt(S, i - 1, i), MatAt(S, i - 1, i + 1)>>
    ELSE <<RSub(RMul(MatAt(S, 0, 0), MatAt(S, 0, 0)), shift),
           RMul(MatAt(S, 0, 1), MatAt(S, 0, 0))>>

\* S(i, i) and S(i + 1, i), the seeds of the row pair at index i
RowSeeds(S, i) == <<MatAt(S, i, i), MatAt(S, i + 1, i)>>

\* if (i + 1 < S.Columns())
ColumnPairRuns(S, i) == i + 1 < Columns(S)

\* a row test that looks one row too far
RowPairRunsBeyond(S, i) == i + 2 < Rows(S)

\* if (i + 1 < S.Rows())
RowPairRuns(S, i) == i + 1 < Rows(S)

\* one Givens call: the matrix rotated, the side, the index pair, the seeds
Rotation(target, side, i, seeds) ==
    [target |-> target, side |-> side, i |-> i, j |-> i + 1, seeds |-> seeds]

\* the inputs: bidiagonal matrices whose sweeps stay within fractions (the
\* diagonal ones), the others with no sweep, and matrices that are not
\* bidiagonal
BidiagInputs ==
    {[call |-> "BidiagonalAlgorithmQR",
      B |-> Matrix2(Real(a), Real(b), Real(c), Real(d)), it_cnt |-> n] :
        a \in (0 - MaxVal)..MaxVal, b \in {0, 1}, c \in {0, 1},
        d \in (0 - MaxVal)..MaxVal, n \in 0..MaxSweeps}

InitBidiag ==
    /\ mats = EmptyMatrix /\ view = NoView /\ res = None
    /\ input \in {x \in BidiagInputs :
                    MatAt(x.B, 0, 1).n # 0 => x.it_cnt = 0}
    /\ output = None

\* the asserts, S = B.Copy(), U = Identity(r), VT = Identity(c)
BidiagBegin ==
    /\ output = None /\ input.call = "BidiagonalAlgorithmQR"
    /\ output' = IF Rows(input.B) = 2 /\ Columns(input.B) = 2 /\ IsBidiagonal(input.B)
                 THEN [op |-> "BidiagonalAlgorithmQR", pc |-> "while",
                       S |-> input.B, U |-> Identity2, VT |-> Identity2,
                       it_cnt |-> input.it_cnt, sweeps |-> 0, i |-> 0,
                       shift |-> Real(0), seeds |-> <<Real(0), Real(0)>>,
                       log |-> <<>>]
                 ELSE [op |-> "BidiagonalAlgorithmQR", pc |-> "aborted",
                       S |-> input.B, U |-> Identity2, VT |-> Identity2,
                       it_cnt |-> input.it_cnt, sweeps |-> 0, i |-> 0,
                       shift |-> Real(0), seeds |-> <<Real(0), Real(0)>>,
                       log |-> <<>>]
    /\ UNCHANGED <<mats, view, res, input>>

\* while (it_cnt--) taken: BB, shift = GetWilkinsonShift(BB), i = 0
BidiagSweepBegin ==
    /\ output # None /\ output.op = "BidiagonalAlgorithmQR"
    /\ output.pc = "while" /\ output.it_cnt # 0
    /\ output' = IF GetWilkinsonShiftOK(GramBlock(output.S))
                 THEN [output EXCEPT !.it_cnt = @ - 1, !.i = 0, !.pc = "columns",
                                     !.shift = GetWilkinsonShift(GramBlock(output.S)),
                                     !.log = Append(@, <<>>)]
                 ELSE [output EXCEPT !.it_cnt = @ - 1, !.pc = "aborted"]
    /\ UNCHANGED <<mats, view, res, input>>

\* while (it_cnt--) not taken: return {U, S, VT}
BidiagReturn ==
    /\ output # None /\ output.op = "BidiagonalAlgorithmQR"
    /\ output.pc = "while" /\ output.it_cnt = 0
    /\ output' = [output EXCEPT !.pc = "returned", !.it_cnt = @ - 1]
    /\ UNCHANGED <<mats, view, res, input>>

\* the log with one more rotation in the current sweep
Logged(log, rot) == [log EXCEPT ![Len(log)] = Append(@, rot)]

\* GivensLeftRotation(VT, i, i + 1, f_elem, s_elem)
BidiagRotateVT ==
    /\ output # None /\ output.op = "BidiagonalAlgorithmQR"
    /\ output.pc = "columns" /\ output.i < Min(Rows(output.S), Columns(output.S))
    /\ ColumnPairRuns(output.S, output.i)
    /\ LET seeds == ColumnSeeds(output.S, output.i, output.shift)
       IN  output' = [output EXCEPT
                        !.seeds = seeds,
                        !.VT = GivensLeftRotation(@, output.i, output.i + 1,
                                                  seeds[1], seeds[2]),
                        !.log = Logged(@, Rotation("VT", "left", output.i, seeds)),
                        !.pc = "columns S"]
    /\ UNCHANGED <<mats, view, res, input>>

\* GivensRightRotation(S, i, i + 1, f_elem, s_elem)
BidiagRotateSRight ==
    /\ output # None /\ output.op = "BidiagonalAlgorithmQR"
    /\ output.pc = "columns S"
    /\ output' = [output EXCEPT
                     !.S = GivensRightRotation(@, output.i, output.i + 1,
                                               output.seeds[1], output.seeds[2]),
                     !.log = Logged(@, Rotation("S", "right", output.i, output.seeds)),
                     !.pc = "rows"]
    /\ UNCHANGED <<mats, view, res, input>>

\* if (i + 1 < S.Columns()) not taken
BidiagSkipColumns ==
    /\ output # None /\ output.op = "BidiagonalAlgorithmQR"
    /\ output.pc = "columns" /\ output.i < Min(Rows(output.S), Columns(output.S))
    /\ ~ColumnPairRuns(output.S, output.i)
    /\ output' = [output EXCEPT !.pc = "rows"]
    /\ UNCHANGED <<mats, view, res, input>>

\* GivensRightRotation(U, i, i + 1, S(i, i), S(i + 1, i))
BidiagRotateU ==
    /\ output # None /\ output.op = "BidiagonalAlgorithmQR"
    /\ output.pc = "rows"
    /\ RowPairRuns(output.S, output.i)
    /\ LET seeds == RowSeeds(output.S, output.i)
       IN  output' = [output EXCEPT
                        !.U = GivensRightRotation(@, output.i, output.i + 1,
                                                  seeds[1], seeds[2]),
                        !.log = Logged(@, Rotation("U", "right", output.i, seeds)),
                        !.pc = "rows S"]
    /\ UNCHANGED <<mats, view, res, input>>

\* GivensLeftRotation(S, i, i + 1, S(i, i), S(i + 1, i)): the seeds are read
\* from S when the call is made
BidiagRotateSLeft ==
    /\ output # None /\ output.op = "BidiagonalAlgorithmQR"
    /\ output.pc = "rows S"
    /\ LET seeds == RowSeeds(output.S, output.i)
       IN  output' = [output EXCEPT
                        !.S = GivensLeftRotation(@, output.i, output.i + 1,
                                                 seeds[1], seeds[2]),
                        !.log = Logged(@, Rotation("S", "left", output.i, seeds)),
                        !.pc = "increment"]
    /\ UNCHANGED <<mats, view, res, input>>

\* if (i + 1 < S.Rows()) not taken
BidiagSkipRows ==
    /\ output # None /\ output.op = "BidiagonalAlgorithmQR"
    /\ output.pc = "rows"
    /\ ~RowPairRuns(output.S, output.i)
    /\ output' = [output EXCEPT !.pc = "increment"]
    /\ UNCHANGED <<mats, view, res, input>>

\* ++i
BidiagIncrement ==
    /\ output # None /\ output.op = "BidiagonalAlgorithmQR"
    /\ output.pc = "increment"
    /\ output' = [output EXCEPT !.i = @ + 1, !.pc = "columns"]
    /\ UNCHANGED <<mats, view, res, input>>

\* i < size fails: S.RoundZeroes(), back to the while test
BidiagSweepEnd ==
    /\ output # None /\ output.op = "BidiagonalAlgorithmQR"
    /\ output.pc = "columns" /\ ~(output.i < Min(Rows(output.S), Columns(output.S)))
    /\ output' = [output EXCEPT !.S = RoundZeroes(@), !.sweeps = @ + 1,
                                 !.pc = "while"]
    /\ UNCHANGED <<mats, view, res, input>>

NextBidiag ==
    \/ BidiagBegin
    \/ BidiagSweepBegin
    \/ BidiagReturn
    \/ BidiagRotateVT
    \/ BidiagRotateSRight
    \/ BidiagSkipColumns
    \/ BidiagRotateU
    \/ BidiagRotateSLeft
    \/ BidiagSkipRows
    \/ BidiagIncrement
    \/ BidiagSweepEnd

SpecBidiag == InitBidiag /\ [][NextBidiag]_vars

\* ---------------------------------------------------------------- SpecSchur
\* std::size_t arithmetic is modulo 2^64; the model keeps the wrap-around with
\* a modulus far above every size it reaches
SizeModulus == 65536

\* a - b in std::size_t
SizeSub(a, b) == (a - b) % SizeModulus

\* the asserts of Matrix::GetSubmatrix(r_from, r_to, c_from, c_to)
GetSubmatrix4OK(m, r_from, r_to, c_from, c_to) ==
    /\ r_from >= 0 /\ r_to <= Rows(m)
    /\ r_from < r_to
    /\ c_from >= 0 /\ c_to <= Columns(m)
    /\ c_from < c_to

\* the trailing-minor request of GetSchurDecomposition
LastMinorOK(copy) ==
    GetSubmatrix4OK(copy, SizeSub(Rows(copy), 2), Rows(copy),
                    SizeSub(Columns(copy), 2), Columns(copy))

\* a diagonal matrix whose diagonal entries are all ones
IdentityOnes(size, default_value) ==
    [cols |-> size,
     buffer |-> [n \in 1..(size * size) |->
                    IF (n - 1) \div size = (n - 1) % size THEN Real(1) ELSE Real(0)]]

\* Matrix::Identity(size, default_value): Matrix(Data(size, default_value))
Identity(size, default_value) ==
    [cols |-> size,
     buffer |-> [n \in 1..(size * size) |->
                    IF (n - 1) \div size = (n - 1) % size THEN default_value
                    ELSE Real(0)]]

\* operator-(const Matrix&, const M&) and operator+ on equal shapes
RMatSub(lhs, rhs) ==
    [lhs EXCEPT !.buffer = [n \in 1..Len(lhs.buffer) |->
                               RSub(lhs.buffer[n], rhs.buffer[n])]]

RMatAdd(lhs, rhs) ==
    [lhs EXCEPT !.buffer = [n \in 1..Len(lhs.buffer) |->
                               RAdd(lhs.buffer[n], rhs.buffer[n])]]

\* utils::IsHermitian on a real matrix: square and equal to its transpose
IsHermitian(m) ==
    /\ Rows(m) = Columns(m)
    /\ \A i \in 0..(Rows(m) - 1), j \in 0..(Columns(m) - 1) :
          IsEqualReal(MatAt(m, i, j), MatAt(m, j, i))

\* the transpose of a real matrix, as a value
RTransposed(m) ==
    [cols |-> Rows(m),
     buffer |-> [n \in 1..Len(m.buffer) |->
                    MatAt(m, (n - 1) % Rows(m), (n - 1) \div Rows(m))]]

IsUpperTriangular(m) ==
    \A i \in 0..(Rows(m) - 1), j \in 0..(Columns(m) - 1) :
        i > j => IsZeroFloating(MatAt(m, i, j))

\* the orthonormal matrices with entries 0, 1 and -1
SignedPermutations(size) ==
    {[cols |-> size,
      buffer |-> [n \in 1..(size * size) |->
                     IF perm[((n - 1) % size) + 1] = ((n - 1) \div size) + 1
                     THEN Real(sgn[((n - 1) % size) + 1]) ELSE Real(0)]] :
        perm \in Permutations(1..size), sgn \in [1..size -> {0 - 1, 1}]}

\* HouseholderQR(m): the pairs {Q, R} with Q orthonormal, R upper triangular
\* and Q * R == m, for the matrices that have such a Q among the signed
\* permutations
HouseholderQR(m) ==
    {[Q |-> q, R |-> RProduct(RTransposed(q), m)] :
        q \in {x \in SignedPermutations(Rows(m)) :
                  IsUpperTriangular(RProduct(RTransposed(x), m))}}

\* the square matrices with at most one non-zero entry in each row and column
SchurMatrices ==
    UNION {{RProduct(q, Identity(size, Real(1))) : q \in SignedPermutations(size)}
           \cup {RProduct(q, Identity(size, Real(0))) : q \in SignedPermutations(size)}
           \cup {[q EXCEPT !.buffer[1] = RMul(Real(MaxVal), @)] :
                    q \in SignedPermutations(size)} :
           size \in 1..MaxDim}

InitSchur ==
    /\ mats = EmptyMatrix /\ view = NoView /\ res = None
    /\ input \in [call : {"GetSchurDecomposition"}, matrix : SchurMatrices,
                   it_cnt : 0..MaxSweeps]
    /\ output = None

\* the assert, the copy, last_minor, shift = 0, shift_I
SchurBegin ==
    /\ output = None /\ input.call = "GetSchurDecomposition"
    /\ LET shift == Real(0)
           ok == IsHermitian(input.matrix) /\ LastMinorOK(input.matrix)
       IN  output' = [op |-> "GetSchurDecomposition",
                      pc |-> IF ok THEN "for" ELSE "aborted",
                      copy |-> input.matrix,
                      shift_I |-> Identity(Rows(input.matrix), shift),
                      i |-> 0, it_cnt |-> input.it_cnt,
                      factored |-> <<>>, shift_calls |-> 0]
    /\ UNCHANGED <<mats, view, res, input>>

\* i < it_cnt: auto [Q, R] = HouseholderQR(copy - shift_I), the factoring of
\* this iteration and its argument kept in factored;
\* copy = R * Q + shift_I; copy.RoundZeroes(); ++i
SchurIterate ==
    /\ output # None /\ output.op = "GetSchurDecomposition"
    /\ output.pc = "for" /\ output.i < output.it_cnt
    /\ \E qr \in HouseholderQR(RMatSub(output.copy, output.shift_I)) :
          output' = [output EXCEPT
                       !.factored = <<[arg |-> RMatSub(output.copy, output.shift_I),
                                       Q |-> qr.Q, R |-> qr.R]>>,
                       !.copy = RoundZeroes(RMatAdd(RProduct(qr.R, qr.Q), output.shift_I)),
                       !.i = @ + 1]
    /\ UNCHANGED <<mats, view, res, input>>

\* i < it_cnt fails: return copy
SchurReturn ==
    /\ output # None /\ output.op = "GetSchurDecomposition"
    /\ output.pc = "for" /\ ~(output.i < output.it_cnt)
    /\ output' = [output EXCEPT !.pc = "returned"]
    /\ UNCHANGED <<mats, view, res, input>>

NextSchur == SchurBegin \/ SchurIterate \/ SchurReturn

SpecSchur == InitSchur /\ [][NextSchur]_vars

\* ------------------------------------------------------------ SpecIterative
\* the two iterative algorithms, each called once
InitIterative == InitBidiag \/ InitSchur

NextIterative == NextBidiag \/ NextSchur

SpecIterative == InitIterative /\ [][NextIterative]_vars

\* =================================================================== claims

\* C9: MakeSegment(seg, max): a non-positive end or an end above max becomes
\* max; then a begin that is >= end, >= max or negative becomes 0.  For every
\* input and every max > 0 the result satisfies 0 <= begin < end <= max, a
\* segment already satisfying that is returned unchanged, and the sentinel
\* {-1, -1} yields [0, max).
C9_MakeSegmentNormalizes ==
    (output.op = "MakeSegment" /\ input.max_value > 0) =>
        LET s  == input.seg
            mx == input.max_value
            o  == output.seg
        IN  /\ 0 <= o.begin /\ o.begin < o.end /\ o.end <= mx
            /\ (0 <= s.begin /\ s.begin < s.end /\ s.end <= mx) => o = s
            /\ s = Seg(0 - 1, 0 - 1) => o = Seg(0, mx)
            /\ o.end = (IF s.end <= 0 \/ s.end > mx THEN mx ELSE s.end)
            /\ o.begin = (IF s.begin >= o.end \/ s.begin >= mx \/ s.begin < 0
                          THEN 0 ELSE s.begin)

C9_Witness ==
    /\ output.op = "MakeSegment"
    /\ input.max_value = MaxSeg
    /\ input.seg = Seg(1, MaxSeg + 1)
    /\ output.seg = Seg(1, MaxSeg)

\* the permutation the claim C6 names: index k of an n-element buffer of a
\* matrix with the given row count moves to (rows * k) mod (n - 1), n - 1 to itself
CycleLeaderTarget(k, rows, n) == IF k = n - 1 THEN n - 1 ELSE (rows * k) % (n - 1)

OnlyTransposes(ops) == \A k \in 1..Len(ops) : ops[k] = "T"

\* C6: Transpose() on an r x c Matrix M leaves a c x r matrix whose element
\* (j, i) is the original M(i, j), every buffer element having moved along
\* next = (rows * current) mod (n - 1), with n - 1 mapped to itself.
C6_TransposeIsTranspose ==
    output.op = "Transpose" /\ output.ops = <<"T">> =>
        LET r == Rows(input)
            c == Columns(input)
            n == Len(input.buffer)
            t == output.m
        IN  /\ Rows(t) = c /\ Columns(t) = r /\ Len(t.buffer) = n
            /\ \A i \in 0..(r - 1), j \in 0..(c - 1) :
                  t.buffer[j * r + i + 1] = input.buffer[i * c + j + 1]
            /\ \A k \in 0..(n - 1) :
                  t.buffer[CycleLeaderTarget(k, r, n) + 1] = input.buffer[k + 1]

C6_Witness ==
    /\ output.op = "Transpose" /\ output.ops = <<"T">>
    /\ Rows(input) = 2 /\ Columns(input) = 3
    /\ output.m.buffer # input.buffer
    /\ output.m.cols = 2

C8_AccessOutOfRangeAborts ==
    (output.op = "Access"
        /\ (output.row_idx >= Rows(output.m) \/ output.col_idx >= Columns(output.m)))
    => ~output.ok

\* C2: two operands whose row counts or column counts differ are never equal,
\* for every combination of owning Matrix and view operands.
C2_ShapeComparedFirst ==
    (output.op \in {"Equal", "NotEqual"}
        /\ (OperandRows(input.lhs) # OperandRows(input.rhs)
            \/ OperandColumns(input.lhs) # OperandColumns(input.rhs)))
    => output.result = (output.op = "NotEqual")

\* the view invariant of the data model: the segments lie within the shape of
\* the referenced Storage, in the view's orientation
ViewWithinShape(v, m) ==
    /\ 0 <= v.row.begin /\ v.row.begin <= v.row.end
    /\ 0 <= v.column.begin /\ v.column.begin <= v.column.end
    /\ v.row.end <= (IF v.state.is_transposed THEN Columns(m) ELSE Rows(m))
    /\ v.column.end <= (IF v.state.is_transposed THEN Rows(m) ELSE Columns(m))

\* the storage coordinates the claim C1 gives for element (i, j) of a view
ClaimedCoords(v, i, j) ==
    IF v.state.is_transposed
    THEN <<v.column.begin + j, v.row.begin + i>>
    ELSE <<v.row.begin + i, v.column.begin + j>>

\* C1: reading element (i, j) of a view reads storage element
\* (column.begin + j, row.begin + i) when the view is transposed and
\* (row.begin + i, column.begin + j) otherwise (conjugated when the view is),
\* also for GetRow/GetColumn/GetSubmatrix views with non-zero offsets taken
\* from a transposed view.
C1_ViewReadMapsToStorage ==
    (res.op = "operator()" /\ ViewWithinShape(view, mats)) =>
        LET rc == ClaimedCoords(view, res.args[1], res.args[2])
            x  == MatAt(mats, rc[1], rc[2])
        IN  /\ res.ok
            /\ res.val = (IF view.state.is_conjugated THEN Conj(x) ELSE x)

\* C3: GetSubmatrix on a view V with segments [rb, re) and [cb, ce), for every
\* request 0 <= r_from < r_to <= V.Rows(), 0 <= c_from < c_to <= V.Columns(),
\* succeeds and returns the view with segments [rb + r_from, rb + r_to) and
\* [cb + c_from, cb + c_to) and the same flags, also when rb > 0 or cb > 0.
C3_GetSubmatrixComposes ==
    [][(/\ res'.op = "GetSubmatrix"
        /\ ViewWithinShape(view, mats)
        /\ 0 <= res'.args[1].begin /\ res'.args[1].begin < res'.args[1].end
        /\ res'.args[1].end <= ViewRows(view)
        /\ 0 <= res'.args[2].begin /\ res'.args[2].begin < res'.args[2].end
        /\ res'.args[2].end <= ViewColumns(view))
       => (/\ res'.ok
           /\ view' = [ptr    |-> view.ptr,
                       row    |-> Seg(view.row.begin + res'.args[1].begin,
                                      view.row.begin + res'.args[1].end),
                       column |-> Seg(view.column.begin + res'.args[2].begin,
                                      view.column.begin + res'.args[2].end),
                       state  |-> view.state])]_vars

\* C4: after any sequence of view creations and Storage operations, every
\* existing view's segments lie within the referenced Storage's current shape.
C4_ViewStaysWithinStorage ==
    view # NoView => ViewWithinShape(view, mats)

\* C5: every owning Matrix has buffer length == Rows() * Columns() in every
\* reachable state, the moved-from matrix included, and Rows() is 0 whenever
\* the column count is 0.
C5_BufferIsRowsTimesColumns ==
    /\ Len(mats.buffer) = Rows(mats) * Columns(mats)
    /\ Columns(mats) = 0 => Rows(mats) = 0

C5_Witness ==
    /\ res.op = "other = std::move(M)"
    /\ mats.cols = 0
    /\ mats.buffer = <<>>

\* C10: Transposed(Transposed(V)) and Conjugated(Conjugated(V)) each return a
\* view equal to V, for every view V: same Storage, segments and flags.
C10_DoubleTransformIsIdentity ==
    [][(/\ res.op \in {"Transposed", "Conjugated"}
        /\ res'.op = res.op
        /\ res'.ok)
       => view' = res.src]_vars

\* C11: Transposed(view) returns a view with the row and column segments
\* swapped and only the transposed flag inverted; Conjugated(view) returns a
\* view with the segments swapped and both flags inverted.  Neither call
\* changes the source view or the elements or shape of the Storage.
C11_TransformSwapsSegments ==
    [][(res'.op \in {"Transposed", "Conjugated"} /\ res'.ok)
       => (/\ view' = [ptr    |-> view.ptr,
                       row    |-> view.column,
                       column |-> view.row,
                       state  |-> State(~view.state.is_transposed,
                                        IF res'.op = "Conjugated"
                                        THEN ~view.state.is_conjugated
                                        ELSE view.state.is_conjugated)]
           /\ res'.src = view
           /\ mats' = mats)]_vars

\* element (i, j) of a matrix-like operand: the storage element the view's
\* segments and flags designate
ClaimedAt(v, m, i, j) ==
    LET rc == ClaimedCoords(v, i, j)
        x  == MatAt(m, rc[1], rc[2])
    IN  IF v.state.is_conjugated THEN Conj(x) ELSE x

RECURSIVE ClaimedDot(_, _, _, _, _)
\* the sum over the first k indices of lhs(i, .) * rhs(., j)
ClaimedDot(lhs, rhs, i, j, k) ==
    IF k = 0 THEN Zero
    ELSE CAdd(ClaimedDot(lhs, rhs, i, j, k - 1),
              CMul(ClaimedAt(lhs.v, lhs.m, i, k - 1), ClaimedAt(rhs.v, rhs.m, k - 1, j)))

\* C12: the product requires lhs.Columns() == rhs.Rows() (otherwise a contract
\* violation); when satisfied the result is an owned lhs.Rows() x rhs.Columns()
\* matrix whose element (i, j) is the sum over k of lhs(i, k) * rhs(k, j), and
\* the empty matrix when lhs.Rows() == 0 or rhs.Columns() == 0.
C12_ProductIsRowByColumn ==
    (output # None /\ output.op \in {"operator*", "operator*="}) =>
        LET lhs == input.lhs
            rhs == input.rhs
            r   == ViewRows(lhs.v)
            c   == ViewColumns(rhs.v)
        IN  IF ViewColumns(lhs.v) # ViewRows(rhs.v)
            THEN ~output.ok
            ELSE /\ output.ok
                 /\ IF r = 0 \/ c = 0
                    THEN output.result = EmptyMatrix
                    ELSE /\ Rows(output.result) = r
                         /\ Columns(output.result) = c
                         /\ \A i \in 0..(r - 1), j \in 0..(c - 1) :
                               MatAt(output.result, i, j)
                                   = ClaimedDot(lhs, rhs, i, j, ViewColumns(lhs.v))

\* C14: for a symmetric block [[a, b], [b, d]] with a == d GetWilkinsonShift
\* takes sign(0) = 1 and returns d - |b| when b # 0, and returns d when b == 0
\* as well, without dividing by a zero denominator.
C14_ShiftOfEqualDiagonal ==
    (output # None /\ output.op = "GetWilkinsonShift"
        /\ MatAt(input, 0, 1) = MatAt(input, 1, 0)
        /\ MatAt(input, 0, 0) = MatAt(input, 1, 1))
    => /\ output.ok
       /\ output.shift = RSub(MatAt(input, 1, 1), RAbs(MatAt(input, 0, 1)))

\* C13: for a 2 x 2 bidiagonal B and every it_cnt >= 0 BidiagonalAlgorithmQR
\* returns {U, S, VT} with U * S * VT equal to B, also when the Gram block has
\* an equal diagonal and a zero off-diagonal (B = identity, B = diag(x, x)).
C13_BidiagReconstructs ==
    (output # None /\ output.op = "BidiagonalAlgorithmQR" /\ IsBidiagonal(input.B))
    => /\ output.pc # "aborted"
       /\ output.pc = "returned" =>
             LET usv == RProduct(RProduct(output.U, output.S), output.VT)
             IN  \A k \in 1..4 : IsEqualReal(usv.buffer[k], input.B.buffer[k])

\* the preconditions of the two algorithms on the arguments drawn
Preconditions ==
    IF input.call = "BidiagonalAlgorithmQR"
    THEN Rows(input.B) = 2 /\ Columns(input.B) = 2 /\ IsBidiagonal(input.B)
    ELSE IsHermitian(input.matrix) /\ Rows(input.matrix) >= 1

\* the sweeps or iterations completed so far
Completed == IF output.op = "BidiagonalAlgorithmQR" THEN output.sweeps ELSE output.i

\* C15: GetSchurDecomposition and BidiagonalAlgorithmQR each execute exactly
\* the caller-chosen number of iterations (zero allowed), with no early exit,
\* and then return.
C15_RunsChosenCount ==
    (output # None /\ Preconditions)
    => /\ output.pc # "aborted"
       /\ Completed <= input.it_cnt
       /\ output.pc = "returned" => Completed = input.it_cnt

\* C16: for all owning matrices or views A and B of identical shape,
\* (A + B) - B equals A element for element and in shape, a new owned matrix,
\* and A and B are left unchanged.
C16_AddThenSubtractRestores ==
    (output # None /\ output.op = "(A + B) - B"
        /\ ViewRows(input.lhs.v) = ViewRows(input.rhs.v)
        /\ ViewColumns(input.lhs.v) = ViewColumns(input.rhs.v))
    => /\ output.ok
       /\ Rows(output.result) = ViewRows(input.lhs.v)
       /\ Columns(output.result) = ViewColumns(input.lhs.v)
       /\ \A i \in 0..(ViewRows(input.lhs.v) - 1), j \in 0..(ViewColumns(input.lhs.v) - 1) :
             MatAt(output.result, i, j) = ClaimedAt(input.lhs.v, input.lhs.m, i, j)
       /\ output.lhs = input.lhs /\ output.rhs = input.rhs

\* C17: Diagonal(v) of a row or column vector v of length n is the n x n matrix
\* with the k-th entry of v at (k, k) and zero elsewhere, Diagonal of a
\* non-vector is a contract violation, and Identity(n) is the n x n matrix with
\* 1 on the diagonal and 0 elsewhere.
C17_DiagonalAndIdentity ==
    /\ (output # None /\ output.op = "Diagonal") =>
          LET v == input.vec.v
              m == input.vec.m
              n == Max(ViewRows(v), ViewColumns(v))
          IN  IF ViewRows(v) = 1 \/ ViewColumns(v) = 1
              THEN /\ output.ok
                   /\ Rows(output.result) = n /\ Columns(output.result) = n
                   /\ \A p \in 0..(n - 1), q \in 0..(n - 1) :
                        MatAt(output.result, p, q) =
                            IF p # q THEN Zero
                            ELSE IF ViewRows(v) = 1 THEN ClaimedAt(v, m, 0, p)
                            ELSE ClaimedAt(v, m, p, 0)
              ELSE ~output.ok
    /\ (output # None /\ output.op = "Identity" /\ input.size >= 0) =>
          /\ Rows(output.result) = input.size
          /\ Columns(output.result) = input.size
          /\ \A p \in 0..(input.size - 1), q \in 0..(input.size - 1) :
                MatAt(output.result, p, q) = IF p = q THEN <<1, 0>> ELSE Zero

\* the four Givens calls of one pass of the for loop, in program order
SweepPattern ==
    <<[target |-> "VT", side |-> "left"], [target |-> "S", side |-> "right"],
      [target |-> "U", side |-> "right"], [target |-> "S", side |-> "left"]>>

\* the for loop of the current sweep has not yet made all its Givens calls
MidSweep ==
    \/ output.pc \in {"columns S", "rows S"}
    \/ output.pc \in {"columns", "rows"} /\ output.i = 0

\* C18: in every sweep of BidiagonalAlgorithmQR on a 2x2 input the right
\* rotation of S follows a rotation of VT and the left rotation of S follows a
\* rotation of U, both members of a pair with the same index pair and the same
\* two seeds, read before the pair changes S; the VT/S pair comes first, every
\* index pair is (0, 1), and one pair of each kind runs per sweep.
C18_RotationsArePaired ==
    (output # None /\ output.op = "BidiagonalAlgorithmQR") =>
        /\ \A k \in 1..Len(output.log) :
              LET sw == output.log[k]
              IN  /\ Len(sw) <= 4
                  /\ \A n \in 1..Len(sw) :
                        /\ sw[n].target = SweepPattern[n].target
                        /\ sw[n].side = SweepPattern[n].side
                        /\ sw[n].i = 0 /\ sw[n].j = 1
                  /\ Len(sw) >= 2 => sw[2].seeds = sw[1].seeds
                  /\ Len(sw) >= 4 => sw[4].seeds = sw[3].seeds
                  /\ (k < Len(output.log) \/ ~MidSweep) => Len(sw) = 4
        /\ output.pc = "columns S" =>
              LET sw == output.log[Len(output.log)]
              IN  /\ Len(sw) = 1
                  /\ sw[1].seeds = ColumnSeeds(output.S, 0, output.shift)
        /\ output.pc = "rows S" =>
              LET sw == output.log[Len(output.log)]
              IN  /\ Len(sw) = 3
                  /\ sw[3].seeds = RowSeeds(output.S, 0)
        /\ Len(output.log) =
              output.sweeps + (IF output.pc \in {"columns", "columns S", "rows",
                                                 "rows S", "increment"}
                               THEN 1 ELSE 0)

\* C18 witness: two sweeps have run to the end on finite values
C18_Witness ==
    /\ output # None /\ output.op = "BidiagonalAlgorithmQR"
    /\ output.pc = "returned" /\ output.sweeps = 2
    /\ Len(output.log) = 2 /\ Len(output.log[2]) = 4
    /\ ~IsNaN(output.log[2][1].seeds[1])
    /\ output.log[2][1].seeds[1].n # 0

\* C19: in GetSchurDecomposition the shift is 0 in every iteration:
\* GetWilkinsonShift is never called, shift_I is the zero matrix, and each
\* iteration factors the current iterate itself as Q * R and replaces it by
\* R * Q with its near-zero entries rounded to zero.
C19_SchurShiftIsZero ==
    [][(output' # None /\ output'.op = "GetSchurDecomposition") =>
          /\ output'.shift_calls = 0
          /\ Rows(output'.shift_I) = Rows(input.matrix)
          /\ Columns(output'.shift_I) = Columns(input.matrix)
          /\ \A n \in 1..Len(output'.shift_I.buffer) :
                output'.shift_I.buffer[n] = Real(0)
          /\ (output # None /\ output'.i = output.i + 1) =>
                LET f == output'.factored[1]
                IN  /\ f.arg = output.copy
                    /\ RProduct(f.Q, f.R) = output.copy
                    /\ output'.copy = RoundZeroes(RProduct(f.R, f.Q))]_vars

\* C19 witness: two iterations have run on a matrix that is not zero, the
\* second on an iterate that differs from the input
C19_Witness ==
    /\ output # None /\ output.op = "GetSchurDecomposition"
    /\ output.pc = "returned" /\ output.i = 2
    /\ \E n \in 1..Len(output.copy.buffer) : output.copy.buffer[n].n # 0
    /\ output.factored[1].arg # input.matrix

\* C20: for every Hermitian n x n input with n >= 1, 1 x 1 included, the
\* trailing-minor request of GetSchurDecomposition, rows [Rows() - 2, Rows())
\* and columns [Columns() - 2, Columns()), meets the preconditions of
\* GetSubmatrix without unsigned underflow, and the call goes on without a
\* contract violation.
C20_TrailingMinorInRange ==
    (output # None /\ output.op = "GetSchurDecomposition"
        /\ IsHermitian(input.matrix) /\ Rows(input.matrix) >= 1) =>
        /\ Rows(input.matrix) - 2 >= 0
        /\ SizeSub(Rows(input.matrix), 2) = Rows(input.matrix) - 2
        /\ SizeSub(Columns(input.matrix), 2) = Columns(input.matrix) - 2
        /\ LastMinorOK(input.matrix)
        /\ output.pc # "aborted"

\* the call of Transpose() is inside the do-while loop of some i
InCycle == output # None /\ output.op = "Transpose()" /\ output.pc = "do"

\* the call of Transpose() is at the test of the for loop
AtForTest == output # None /\ output.op = "Transpose()" /\ output.pc = "for"

\* no index outside [0, n) is reached, and no index is processed by the
\* cycles of two start indices
CyclesStayApart ==
    (output # None /\ output.op = "Transpose()") =>
        /\ output.pc # "out of range"
        /\ output.pc = "do" =>
              /\ 0 <= output.swap_idx /\ output.swap_idx < Len(output.m.buffer)
              /\ 1 <= output.i /\ output.i < Len(output.m.buffer)
        /\ \A k \in 1..Len(output.owner) : Cardinality(output.owner[k]) <= 1
        /\ output.pc = "done" =>
              \A k \in 1..Len(output.owner) :
                  /\ output.visited[k] = (k > 1)
                  /\ Cardinality(output.owner[k]) = (IF k > 1 THEN 1 ELSE 0)

\* C21: the do-while loop of Matrix::Transpose() terminates for every start
\* index i and every shape r x c, n = 0 and n = 1 included: following
\* next = (Rows() * current) mod (n - 1), with n - 1 mapped to itself, comes
\* back to i, every index passed lies in [0, n), and no index is processed in
\* more than one cycle.
C21_TransposeCyclesTerminate ==
    /\ []CyclesStayApart
    /\ InCycle ~> AtForTest
    /\ <>(output # None /\ output.op = "Transpose()" /\ output.pc = "done")

\* C21 witness: a call has ended after following a cycle of three or more
\* indices and another cycle besides
C21_Witness ==
    /\ output # None /\ output.op = "Transpose()" /\ output.pc = "done"
    /\ \E a \in 1..Len(output.owner), b \in 1..Len(output.owner) :
          /\ a # b
          /\ Cardinality({k \in 1..Len(output.owner) : output.owner[k] = {a}}) >= 3
          /\ Cardinality({k \in 1..Len(output.owner) : output.owner[k] = {b}}) >= 1

====
